---------------------------- MODULE Spec2Model ----------------------------
(***************************************************************************)
(* Model of simulador_smart_office.py: the Smart Office sensor simulator.  *)
(*                                                                         *)
(* Conventions                                                             *)
(*  - a datetime is the number of minutes elapsed since 2024-01-01 00:00   *)
(*    (a Monday); its fields are recovered by Hour, Minute, DayOfMonth and *)
(*    Weekday, and strftime renders it as the text the program writes.     *)
(*  - a Python number is a record [t, v]: t = "float" with v in thousandths*)
(*    (fixed point), or t = "int" with v the integer itself.               *)
(*  - numpy's and random's generators are records [impl, seed, pos]: the   *)
(*    library implementation, the seed and the number of samples already   *)
(*    consumed. The sample at a position is a fixed function of the three. *)
(*  - np.sin is a table in steps of pi/360, scaled by SinScale; products   *)
(*    and quotients are rounded down to the next thousandth.               *)
(*  - the summary main prints after writing the file changes no state and  *)
(*    is left out.                                                         *)
(***************************************************************************)
EXTENDS Integers, Sequences, FiniteSets, TLC

VARIABLES
    pc,                 \* position of the process: seed_np, seed_py, gen, temp, lux, occ, done
    np_rng,             \* numpy's global generator
    py_rng,             \* random's global generator
    dia, hora, minuto,  \* loop variables of gerar_timestamps_7_dias
    timestamps,         \* the list built by gerar_timestamps_7_dias
    i,                  \* index of main's accumulation loop (instants processed)
    dados_sensores,     \* main's list of rows
    arquivo,            \* content of smart_office_data.csv: a sequence of rows of cells
    outra_execucao,     \* a second run of the program: the record of its variables
    fn, arg_ts, arg_rng, ret, fpc   \* one call of a signal function: its inputs and result

vars == << pc, np_rng, py_rng, dia, hora, minuto, timestamps, i, dados_sensores,
           arquivo, outra_execucao, fn, arg_ts, arg_rng, ret, fpc >>

mainVars == << pc, np_rng, py_rng, dia, hora, minuto, timestamps, i, dados_sensores,
               arquivo, outra_execucao >>

callVars == << fn, arg_ts, arg_rng, ret, fpc >>

-----------------------------------------------------------------------------
(* Bounds of the model *)

\* standard-normal samples range over -MaxZ/2 .. MaxZ/2 in steps of 0.5
MaxZ == 32
\* uniform samples are the multiples of 1/URes in [0, 1)
URes == 100
\* number of library implementations of the two distributions
MaxImpl == 2
\* number of states the operating system may seed an unseeded generator with
MaxEntropy == 2

-----------------------------------------------------------------------------
(* Program constants *)

NUM_DIAS == 7
HORAS_DIA == 24
MINUTOS_HORA == 60
PASSO_MINUTOS == 15
SEED_NP == 42
SEED_PY == 42


-----------------------------------------------------------------------------
(* datetime *)

MinutosDia == HORAS_DIA * MINUTOS_HORA

\* datetime(2024, 1, 15, 0, 0, 0)
data_inicio == 14 * MinutosDia

\* faulty variant: the minutes of the timedelta are dropped
DatetimeMaisSemMinutos(dt, days, hours, minutes) == dt + days * MinutosDia + hours * MINUTOS_HORA

\* datetime + timedelta(days, hours, minutes)
DatetimeMais(dt, days, hours, minutes) ==
    dt + days * MinutosDia + hours * MINUTOS_HORA + minutes

Hour(dt) == (dt \div MINUTOS_HORA) % HORAS_DIA
Minute(dt) == dt % MINUTOS_HORA
\* 0 = Monday .. 6 = Sunday; 2024-01-01 is a Monday
Weekday(dt) == (dt \div MinutosDia) % 7
DiaDoAno(dt) == dt \div MinutosDia
Month(dt) == IF DiaDoAno(dt) < 31 THEN 1 ELSE 2
DayOfMonth(dt) == IF DiaDoAno(dt) < 31 THEN DiaDoAno(dt) + 1 ELSE DiaDoAno(dt) - 30

Pad2(n) == IF n < 10 THEN "0" \o ToString(n) ELSE ToString(n)

\* timestamp.strftime('%Y-%m-%d %H:%M:%S')
strftime(dt) ==
    "2024-" \o Pad2(Month(dt)) \o "-" \o Pad2(DayOfMonth(dt)) \o " "
        \o Pad2(Hour(dt)) \o ":" \o Pad2(Minute(dt)) \o ":00"

-----------------------------------------------------------------------------
(* Python numbers *)

PyFloat(m) == [t |-> "float", v |-> m]
PyInt(n) == [t |-> "int", v |-> n]
\* the numeric value, in thousandths
Milli(x) == IF x.t = "int" THEN x.v * 1000 ELSE x.v

\* round(x, 2): to the nearest hundredth, ties to even; an int stays an int
RoundHalfEven10(m) ==
    LET q == m \div 10
        r == m % 10
    IN  IF r < 5 THEN 10 * q
        ELSE IF r > 5 THEN 10 * (q + 1)
        ELSE IF q % 2 = 0 THEN 10 * q ELSE 10 * (q + 1)

round2(x) == IF x.t = "int" THEN x ELSE PyFloat(RoundHalfEven10(x.v))

-----------------------------------------------------------------------------
(* np.sin, by table: SinTable[a + 1] = sin(a * pi / 360) * SinScale, a = 0..180 *)

SinTable ==
    <<
       0, 873, 1745, 2618, 3490, 4362, 5234, 6105, 6976, 7846,
       8716, 9585, 10453, 11320, 12187, 13053, 13917, 14781, 15643, 16505,
       17365, 18224, 19081, 19937, 20791, 21644, 22495, 23345, 24192, 25038,
       25882, 26724, 27564, 28402, 29237, 30071, 30902, 31730, 32557, 33381,
       34202, 35021, 35837, 36650, 37461, 38268, 39073, 39875, 40674, 41469,
       42262, 43051, 43837, 44620, 45399, 46175, 46947, 47716, 48481, 49242,
       50000, 50754, 51504, 52250, 52992, 53730, 54464, 55194, 55919, 56641,
       57358, 58070, 58779, 59482, 60182, 60876, 61566, 62251, 62932, 63608,
       64279, 64945, 65606, 66262, 66913, 67559, 68200, 68835, 69466, 70091,
       70711, 71325, 71934, 72537, 73135, 73728, 74314, 74896, 75471, 76041,
       76604, 77162, 77715, 78261, 78801, 79335, 79864, 80386, 80902, 81412,
       81915, 82413, 82904, 83389, 83867, 84339, 84805, 85264, 85717, 86163,
       86603, 87036, 87462, 87882, 88295, 88701, 89101, 89493, 89879, 90259,
       90631, 90996, 91355, 91706, 92050, 92388, 92718, 93042, 93358, 93667,
       93969, 94264, 94552, 94832, 95106, 95372, 95630, 95882, 96126, 96363,
       96593, 96815, 97030, 97237, 97437, 97630, 97815, 97992, 98163, 98325,
       98481, 98629, 98769, 98902, 99027, 99144, 99255, 99357, 99452, 99540,
       99619, 99692, 99756, 99813, 99863, 99905, 99939, 99966, 99985, 99996,
       100000 >>

SinScale == SinTable[181]

\* sin(a * pi / 360) * SinScale for any integer a
Sin(a) ==
    LET b == a % 720
    IN  IF b <= 180 THEN SinTable[b + 1]
        ELSE IF b <= 360 THEN SinTable[360 - b + 1]
        ELSE IF b <= 540 THEN 0 - SinTable[b - 360 + 1]
        ELSE 0 - SinTable[720 - b + 1]

\* amp * sin(a * pi / 360), amp and the result in thousandths (amp a multiple of 100)
AmpSin(amp, a) == ((amp \div 100) * Sin(a)) \div (SinScale \div 100)

-----------------------------------------------------------------------------
(* The two generators.  A generator is [impl, seed, pos].                   *)

ZLen == 2 * MaxZ + 1

\* the position in the sample table that a generator state stands at
StreamIndex(rng, n) == (rng.seed + rng.impl + rng.pos * (37 + 2 * rng.impl)) % n

\* the standard-normal sample the generator yields next, in thousandths
StdNormal(rng) == (StreamIndex(rng, ZLen) - MaxZ) * 500

Advance(rng) == [rng EXCEPT !.pos = @ + 1]

\* faulty variant: the seed does not reach the generator
np_random_seed_ignored(rng, s) == rng

\* np.random.seed(s) and random.seed(s)
np_random_seed(rng, s) == [rng EXCEPT !.seed = s, !.pos = 0]

random_seed(rng, s) == [rng EXCEPT !.seed = s, !.pos = 0]

\* np.random.normal(loc, scale): loc in thousandths, scale in tenths
np_random_normal(rng, loc, escala_decimos) ==
    [value |-> loc + (escala_decimos * StdNormal(rng)) \div 10, rng |-> Advance(rng)]

\* random.random(): value / URes is the sample in [0, 1)
random_random(rng) == [value |-> StreamIndex(rng, URes), rng |-> Advance(rng)]

-----------------------------------------------------------------------------
(* The signal functions.  Each takes the instant and the generator it draws *)
(* from, and returns [value, rng]: the reading and the generator afterwards.*)

Min2(a, b) == IF a < b THEN a ELSE b
Max2(a, b) == IF a > b THEN a ELSE b

\* faulty variant: the night branch written 0 <= hora <= 7
TempRamoNoiteAte7(h) ==
    IF 9 <= h /\ h <= 18 THEN "diurna"
    ELSE IF (19 <= h /\ h <= 23) \/ (0 <= h /\ h <= 7) THEN "noite"
    ELSE "transicao"

\* which branch of simular_temperatura's if / elif / else an hour takes
TempRamo(h) ==
    IF 9 <= h /\ h <= 18 THEN "diurna"
    ELSE IF (19 <= h /\ h <= 23) \/ (0 <= h /\ h <= 6) THEN "noite"
    ELSE "transicao"

\* faulty variant: the lower limit is missing
LimitarSemMinimo(t) == Min2(28000, t)

\* max(16.0, min(28.0, temperatura_final)), in thousandths
Limitar(t) == Max2(16000, Min2(28000, t))

simular_temperatura(timestamp, rng) ==
    LET h == Hour(timestamp)
        dia_semana == Weekday(timestamp)
        ramo == TempRamo(h)
        temp_base1 ==
            IF ramo = "diurna" THEN 21500 + AmpSin(3500, (h - 9) * 40)
            ELSE IF ramo = "noite" THEN 21500 - 2000
            ELSE 21500 + 1000
        sorteio == np_random_normal(rng, 0, 8)
        temp_base2 == IF dia_semana >= 5 THEN temp_base1 - 500 ELSE temp_base1
        temperatura_final == temp_base2 + sorteio.value
    IN  [value |-> PyFloat(Limitar(temperatura_final)), rng |-> sorteio.rng]

\* hora_decimal = hora + minuto / 60.0, kept in minutes
HoraDecimal(timestamp) == Hour(timestamp) * 60 + Minute(timestamp)

\* faulty variant: the night branch written hora_decimal < 6
LuxRamoNoiteAberta(hd) ==
    IF hd >= 20 * 60 \/ hd < 6 * 60 THEN "noite"
    ELSE IF 6 * 60 < hd /\ hd <= 8 * 60 THEN "nascer"
    ELSE IF 18 * 60 <= hd /\ hd < 20 * 60 THEN "por"
    ELSE "dia"

\* which branch of simular_luminosidade's if / elif / elif / else an instant takes
LuxRamo(hd) ==
    IF hd >= 20 * 60 \/ hd <= 6 * 60 THEN "noite"
    ELSE IF 6 * 60 < hd /\ hd <= 8 * 60 THEN "nascer"
    ELSE IF 18 * 60 <= hd /\ hd < 20 * 60 THEN "por"
    ELSE "dia"

\* faulty variant: the noise is drawn before the branches are told apart
simular_luminosidade_sorteio_antes(timestamp, rng) ==
    LET hd == HoraDecimal(timestamp)
        ramo == LuxRamo(hd)
        sorteio == np_random_normal(rng, 0, 500)
    IN  IF ramo = "noite" THEN [value |-> PyFloat(0), rng |-> sorteio.rng]
        ELSE IF ramo = "nascer"
            THEN [value |-> PyFloat(((hd - 6 * 60) * 250 * 1000) \div 60), rng |-> sorteio.rng]
        ELSE IF ramo = "por"
            THEN [value |-> PyFloat(((20 * 60 - hd) * 250 * 1000) \div 60), rng |-> sorteio.rng]
        ELSE
            LET soma == AmpSin(1000000, ((hd - 8 * 60) * 3) \div 5) + sorteio.value
            IN  [value |-> IF soma > 0 THEN PyFloat(soma) ELSE PyInt(0),
                 rng |-> sorteio.rng]

simular_luminosidade(timestamp, rng) ==
    LET hd == HoraDecimal(timestamp)
        ramo == LuxRamo(hd)
    IN  IF ramo = "noite" THEN [value |-> PyFloat(0), rng |-> rng]
        ELSE IF ramo = "nascer"
            THEN [value |-> PyFloat(((hd - 6 * 60) * 250 * 1000) \div 60), rng |-> rng]
        ELSE IF ramo = "por"
            THEN [value |-> PyFloat(((20 * 60 - hd) * 250 * 1000) \div 60), rng |-> rng]
        ELSE
            LET \* x = (hora_decimal - 8) * pi / 10, in steps of pi / 360
                x == ((hd - 8 * 60) * 3) \div 5
                luminosidade_base == AmpSin(1000000, x)
                sorteio == np_random_normal(rng, 0, 500)
                soma == luminosidade_base + sorteio.value
            IN  \* max(0, soma): the int 0 unless soma is greater
                [value |-> IF soma > 0 THEN PyFloat(soma) ELSE PyInt(0),
                 rng |-> sorteio.rng]

\* 1 if random.random() < p / 100 else 0
Bernoulli(rng, p) ==
    LET sorteio == random_random(rng)
    IN  [value |-> PyInt(IF sorteio.value * 100 < p * URes THEN 1 ELSE 0),
         rng |-> sorteio.rng]

\* faulty variant: the business-hour branch does not look at the weekday
simular_ocupacao_so_hora(timestamp, rng) ==
    LET h == Hour(timestamp)
        dia_semana == Weekday(timestamp)
    IN  IF 9 <= h /\ h < 18 THEN Bernoulli(rng, 95)
        ELSE IF dia_semana < 5 THEN Bernoulli(rng, 5)
        ELSE Bernoulli(rng, 2)

simular_ocupacao(timestamp, rng) ==
    LET h == Hour(timestamp)
        dia_semana == Weekday(timestamp)
    IN  IF dia_semana < 5 /\ 9 <= h /\ h < 18 THEN Bernoulli(rng, 95)
        ELSE IF dia_semana < 5 THEN Bernoulli(rng, 5)
        ELSE Bernoulli(rng, 2)

-----------------------------------------------------------------------------
(* pandas: DataFrame(list of dicts) and DataFrame.to_csv(index=False)       *)

\* dtype inferred for the value column: int64 only if every value is an int
ValueDtype(rows) ==
    IF \A j \in 1..Len(rows) : rows[j].value.t = "int" THEN "int64" ELSE "float64"

pd_DataFrame(rows) ==
    LET dtype == ValueDtype(rows)
    IN  [j \in 1..Len(rows) |->
            [rows[j] EXCEPT !.value =
                IF dtype = "float64" THEN PyFloat(Milli(@)) ELSE @]]

Pad3(n) == IF n < 100 THEN "0" \o Pad2(n) ELSE ToString(n)

\* the shortest decimal text of a float's fraction (thousandths), at least one digit
FracText(f) ==
    IF f % 100 = 0 THEN ToString(f \div 100)
    ELSE IF f % 10 = 0 THEN Pad2(f \div 10)
    ELSE Pad3(f)

\* the text to_csv writes for a number
NumText(x) ==
    IF x.t = "int" THEN ToString(x.v)
    ELSE IF x.v < 0 THEN "-" \o ToString((0 - x.v) \div 1000) \o "." \o FracText((0 - x.v) % 1000)
    ELSE ToString(x.v \div 1000) \o "." \o FracText(x.v % 1000)

to_csv(df) ==
    << << "timestamp", "sensor_id", "value" >> >> \o
    [j \in 1..Len(df) |-> << df[j].timestamp, df[j].sensor_id, NumText(df[j].value) >>]

-----------------------------------------------------------------------------
(* The process: __main__ seeds the two generators and calls main, which     *)
(* builds the timestamps, accumulates the rows and writes the file.         *)
(*                                                                          *)
(* Each operation is a guard and a transformer of the process state, a      *)
(* record of the variables above.  The actions apply the transformer to the *)
(* variables; a second, independent run of the program (outra_execucao) is  *)
(* advanced by the same transformers.                                       *)

Impls == 0..(MaxImpl - 1)
EntropySeeds == 0..(MaxEntropy - 1)

\* a generator as the library leaves it at import: seeded by the operating system
Unseeded(m) == { [impl |-> m, seed |-> e, pos |-> 0] : e \in EntropySeeds }

\* the process state at the first statement of __main__
ProcessStart(np, py) ==
    [pc |-> "seed_np", np_rng |-> np, py_rng |-> py,
     dia |-> 0, hora |-> 0, minuto |-> 0, timestamps |-> << >>,
     i |-> 0, dados_sensores |-> << >>, arquivo |-> << >>]

Processo ==
    [pc |-> pc, np_rng |-> np_rng, py_rng |-> py_rng,
     dia |-> dia, hora |-> hora, minuto |-> minuto, timestamps |-> timestamps,
     i |-> i, dados_sensores |-> dados_sensores, arquivo |-> arquivo]

Assign(q) ==
    /\ pc' = q.pc
    /\ np_rng' = q.np_rng
    /\ py_rng' = q.py_rng
    /\ dia' = q.dia /\ hora' = q.hora /\ minuto' = q.minuto
    /\ timestamps' = q.timestamps
    /\ i' = q.i
    /\ dados_sensores' = q.dados_sensores
    /\ arquivo' = q.arquivo

\* np.random.seed(42)
SeedNpStep(p) == [p EXCEPT !.np_rng = np_random_seed(@, SEED_NP), !.pc = "seed_py"]

\* random.seed(42); main() starts and enters gerar_timestamps_7_dias
SeedPyStep(p) ==
    [p EXCEPT !.py_rng = random_seed(@, SEED_PY),
              !.dia = 0, !.hora = 0, !.minuto = 0,
              !.timestamps = << >>,
              !.pc = "gen"]

\* one iteration of the innermost loop of gerar_timestamps_7_dias
GenStepStep(p) ==
    LET fimHora == ~(p.minuto + PASSO_MINUTOS < MINUTOS_HORA)
        fimDia == fimHora /\ ~(p.hora + 1 < HORAS_DIA)
    IN  [p EXCEPT
            !.timestamps = Append(@, DatetimeMais(data_inicio, p.dia, p.hora, p.minuto)),
            !.minuto = IF fimHora THEN 0 ELSE @ + PASSO_MINUTOS,
            !.hora = IF fimDia THEN 0 ELSE IF fimHora THEN @ + 1 ELSE @,
            !.dia = IF fimDia THEN @ + 1 ELSE @]

\* gerar_timestamps_7_dias returns; main prepares dados_sensores and enters its loop
GenReturnStep(p) == [p EXCEPT !.dados_sensores = << >>, !.i = 0, !.pc = "temp"]

\* faulty variant: the row is inserted at the front
list_insert_front(lst, row) == << row >> \o lst

\* dados_sensores.append(row)
list_append(lst, row) == Append(lst, row)

\* faulty variant: every row is labelled TEMP01
RowSempreTemp(timestamp, sensor, value) ==
    [timestamp |-> strftime(timestamp), sensor_id |-> "TEMP01", value |-> value]

\* the dict main appends for one sensor of one instant
Row(timestamp, sensor, value) ==
    [timestamp |-> strftime(timestamp), sensor_id |-> sensor, value |-> value]

\* the temperature sensor of instant i
SimTempStep(p) ==
    LET timestamp == p.timestamps[p.i + 1]
        r == simular_temperatura(timestamp, p.np_rng)
    IN  [p EXCEPT
            !.dados_sensores = list_append(@, Row(timestamp, "TEMP01", round2(r.value))),
            !.np_rng = r.rng,
            !.pc = "lux"]

\* the illuminance sensor of instant i
SimLuxStep(p) ==
    LET timestamp == p.timestamps[p.i + 1]
        r == simular_luminosidade(timestamp, p.np_rng)
    IN  [p EXCEPT
            !.dados_sensores = list_append(@, Row(timestamp, "LUX01", round2(r.value))),
            !.np_rng = r.rng,
            !.pc = "occ"]

\* the occupancy sensor of instant i; the loop moves to the next instant
SimOccStep(p) ==
    LET timestamp == p.timestamps[p.i + 1]
        r == simular_ocupacao(timestamp, p.py_rng)
    IN  [p EXCEPT
            !.dados_sensores = list_append(@, Row(timestamp, "OCCU01", r.value)),
            !.py_rng = r.rng,
            !.i = @ + 1,
            !.pc = "temp"]

\* the loop is over: df = pd.DataFrame(dados_sensores); df.to_csv(...)
SalvarCsvStep(p) ==
    [p EXCEPT !.arquivo = to_csv(pd_DataFrame(p.dados_sensores)), !.pc = "done"]

\* the step a process takes from where it stands; none once it is done
Passo(p) ==
    IF p.pc = "seed_np" THEN SeedNpStep(p)
    ELSE IF p.pc = "seed_py" THEN SeedPyStep(p)
    ELSE IF p.pc = "gen" /\ p.dia < NUM_DIAS THEN GenStepStep(p)
    ELSE IF p.pc = "gen" THEN GenReturnStep(p)
    ELSE IF p.pc = "temp" /\ p.i < Len(p.timestamps) THEN SimTempStep(p)
    ELSE IF p.pc = "lux" THEN SimLuxStep(p)
    ELSE IF p.pc = "occ" THEN SimOccStep(p)
    ELSE IF p.pc = "temp" THEN SalvarCsvStep(p)
    ELSE p

NoCall ==
    /\ fn = "nenhuma"
    /\ arg_ts = 0
    /\ arg_rng = [impl |-> 0, seed |-> 0, pos |-> 0]
    /\ ret = [value |-> PyInt(0), rng |-> [impl |-> 0, seed |-> 0, pos |-> 0]]
    /\ fpc = "idle"

NoProcess == ProcessStart([impl |-> 0, seed |-> 0, pos |-> 0], [impl |-> 0, seed |-> 0, pos |-> 0])

InitProcesso ==
    \E m \in Impls : \E np \in Unseeded(m), py \in Unseeded(m) :
        /\ pc = "seed_np"
        /\ np_rng = np
        /\ py_rng = py
        /\ dia = 0 /\ hora = 0 /\ minuto = 0
        /\ timestamps = << >>
        /\ i = 0
        /\ dados_sensores = << >>
        /\ arquivo = << >>

Init ==
    /\ InitProcesso
    /\ outra_execucao = NoProcess
    /\ NoCall

SeedNp ==
    /\ pc = "seed_np"
    /\ Assign(SeedNpStep(Processo))

SeedPy ==
    /\ pc = "seed_py"
    /\ Assign(SeedPyStep(Processo))

GenStep ==
    /\ pc = "gen"
    /\ dia < NUM_DIAS
    /\ Assign(GenStepStep(Processo))

GenReturn ==
    /\ pc = "gen"
    /\ dia = NUM_DIAS
    /\ Assign(GenReturnStep(Processo))

SimTemp ==
    /\ pc = "temp"
    /\ i < Len(timestamps)
    /\ Assign(SimTempStep(Processo))

SimLux ==
    /\ pc = "lux"
    /\ Assign(SimLuxStep(Processo))

SimOcc ==
    /\ pc = "occ"
    /\ Assign(SimOccStep(Processo))

SalvarCsv ==
    /\ pc = "temp"
    /\ i = Len(timestamps)
    /\ Assign(SalvarCsvStep(Processo))

Next ==
    \/ SeedNp /\ UNCHANGED << outra_execucao, callVars >>
    \/ SeedPy /\ UNCHANGED << outra_execucao, callVars >>
    \/ GenStep /\ UNCHANGED << outra_execucao, callVars >>
    \/ GenReturn /\ UNCHANGED << outra_execucao, callVars >>
    \/ SimTemp /\ UNCHANGED << outra_execucao, callVars >>
    \/ SimLux /\ UNCHANGED << outra_execucao, callVars >>
    \/ SimOcc /\ UNCHANGED << outra_execucao, callVars >>
    \/ SalvarCsv /\ UNCHANGED << outra_execucao, callVars >>

Spec == Init /\ [][Next]_vars

-----------------------------------------------------------------------------
(* Two runs of the program, side by side: each starts from generators in    *)
(* whatever state the operating system left them and the same libraries,    *)
(* and each takes its own step whenever the other does.                     *)

InitDuas ==
    /\ InitProcesso
    /\ \E np \in Unseeded(np_rng.impl), py \in Unseeded(py_rng.impl) :
        outra_execucao = ProcessStart(np, py)
    /\ NoCall

OutraPasso == outra_execucao' = Passo(outra_execucao)

NextDuas ==
    \/ SeedNp /\ OutraPasso /\ UNCHANGED callVars
    \/ SeedPy /\ OutraPasso /\ UNCHANGED callVars
    \/ GenStep /\ OutraPasso /\ UNCHANGED callVars
    \/ GenReturn /\ OutraPasso /\ UNCHANGED callVars
    \/ SimTemp /\ OutraPasso /\ UNCHANGED callVars
    \/ SimLux /\ OutraPasso /\ UNCHANGED callVars
    \/ SimOcc /\ OutraPasso /\ UNCHANGED callVars
    \/ SalvarCsv /\ OutraPasso /\ UNCHANGED callVars

SpecDuas == InitDuas /\ [][NextDuas]_vars

-----------------------------------------------------------------------------
(* One call of a signal function on any generated instant and any sample.   *)

Instantes ==
    { DatetimeMais(data_inicio, d, h, k * PASSO_MINUTOS) :
        d \in 0..(NUM_DIAS - 1), h \in 0..(HORAS_DIA - 1),
        k \in 0..((MINUTOS_HORA - 1) \div PASSO_MINUTOS) }

NoMain ==
    /\ pc = "idle"
    /\ np_rng = [impl |-> 0, seed |-> 0, pos |-> 0]
    /\ py_rng = [impl |-> 0, seed |-> 0, pos |-> 0]
    /\ dia = 0 /\ hora = 0 /\ minuto = 0
    /\ timestamps = << >>
    /\ i = 0
    /\ dados_sensores = << >>
    /\ arquivo = << >>
    /\ outra_execucao = NoProcess

InitCall ==
    /\ NoMain
    /\ fn \in { "simular_temperatura", "simular_luminosidade", "simular_ocupacao" }
    /\ arg_ts \in Instantes
    /\ arg_rng \in
        { [impl |-> 0, seed |-> 0, pos |-> p] :
            p \in 0..((IF fn = "simular_ocupacao" THEN URes ELSE ZLen) - 1) }
    /\ ret = [value |-> PyInt(0), rng |-> arg_rng]
    /\ fpc = "call"

CallTemperatura ==
    /\ fpc = "call"
    /\ fn = "simular_temperatura"
    /\ ret' = simular_temperatura(arg_ts, arg_rng)
    /\ fpc' = "ret"
    /\ UNCHANGED << fn, arg_ts, arg_rng >>
    /\ UNCHANGED mainVars

CallLuminosidade ==
    /\ fpc = "call"
    /\ fn = "simular_luminosidade"
    /\ ret' = simular_luminosidade(arg_ts, arg_rng)
    /\ fpc' = "ret"
    /\ UNCHANGED << fn, arg_ts, arg_rng >>
    /\ UNCHANGED mainVars

CallOcupacao ==
    /\ fpc = "call"
    /\ fn = "simular_ocupacao"
    /\ ret' = simular_ocupacao(arg_ts, arg_rng)
    /\ fpc' = "ret"
    /\ UNCHANGED << fn, arg_ts, arg_rng >>
    /\ UNCHANGED mainVars

NextCall ==
    \/ CallTemperatura
    \/ CallLuminosidade
    \/ CallOcupacao

SpecCall == InitCall /\ [][NextCall]_vars

-----------------------------------------------------------------------------
(* Properties of the process (specification Spec)                           *)

GenDone == pc \in { "temp", "lux", "occ", "done" }
LoopDone == pc = "done" \/ (pc = "temp" /\ i = Len(timestamps))

\* C1: gerar_timestamps_7_dias returns exactly 672 instants; the first is
\* 2024-01-15 00:00:00, every consecutive pair differs by exactly 15 minutes, and
\* the last, 2024-01-21 23:45:00, is strictly before start + 7 days.
C1_Timestamps ==
    GenDone =>
        /\ Len(timestamps) = 672
        /\ timestamps[1] = data_inicio
        /\ strftime(timestamps[1]) = "2024-01-15 00:00:00"
        /\ \A k \in 1..(Len(timestamps) - 1) : timestamps[k + 1] - timestamps[k] = 15
        /\ timestamps[Len(timestamps)] < data_inicio + 7 * 24 * 60
        /\ strftime(timestamps[Len(timestamps)]) = "2024-01-21 23:45:00"

C1_Witness == pc = "temp" /\ i = 0 /\ Len(timestamps) = 672

SensorIds == << "TEMP01", "LUX01", "OCCU01" >>

RowsOf(pred(_)) == Cardinality({ j \in 1..Len(dados_sensores) : pred(dados_sensores[j]) })

\* C2: at the head of the loop, after k instants have been processed, the table has
\* exactly 3k rows; once the loop is over it has 2016 rows, 672 per sensor identifier,
\* and every generated instant has exactly three rows, one per sensor identifier.
C2_RowCounts ==
    /\ pc = "temp" => Len(dados_sensores) = 3 * i
    /\ LoopDone =>
        /\ Len(dados_sensores) = 2016
        /\ \A n \in 1..3 :
            LET ofSensor(r) == r.sensor_id = SensorIds[n] IN RowsOf(ofSensor) = 672
        /\ \A k \in 1..Len(timestamps) :
            LET texto == strftime(timestamps[k])
                rows == { j \in 1..Len(dados_sensores) : dados_sensores[j].timestamp = texto }
            IN  /\ Cardinality(rows) = 3
                /\ { dados_sensores[j].sensor_id : j \in rows } = { "TEMP01", "LUX01", "OCCU01" }

C2_Witness == pc = "done" /\ Len(dados_sensores) = 2016 /\ i = 672

\* C6: two runs of the program, each seeding both generators with 42 at process
\* start, build identical reading tables, row by row as they go and in the end:
\* same rows, same order, same values, and the same file.
C6_SameTable ==
    /\ dados_sensores = outra_execucao.dados_sensores
    /\ (pc = "done" /\ outra_execucao.pc = "done") => arquivo = outra_execucao.arquivo

C6_Witness ==
    /\ pc = "done"
    /\ outra_execucao.pc = "done"
    /\ Len(dados_sensores) = 2016
    /\ Len(outra_execucao.dados_sensores) = 2016

\* the row at position j carries the timestamp of instant (j - 1) \div 3 and the
\* sensor identifier of its place in the cycle TEMP01, LUX01, OCCU01
RowInPlace(j) ==
    /\ (j - 1) \div 3 < Len(timestamps)
    /\ dados_sensores[j].timestamp = strftime(timestamps[(j - 1) \div 3 + 1])
    /\ dados_sensores[j].sensor_id = SensorIds[((j - 1) % 3) + 1]
    /\ j > 1 => timestamps[(j - 2) \div 3 + 1] <= timestamps[(j - 1) \div 3 + 1]

\* C8: in the finished table the rows at positions 3k, 3k+1, 3k+2 carry the k-th
\* instant's timestamp with the sensor identifiers TEMP01, LUX01, OCCU01 in that
\* order, so timestamps never decrease along the table; and while the table is
\* built the row just appended is the next one of that order: temperature,
\* illuminance, occupancy of instant i, before any row of instant i + 1.
C8_RowOrder ==
    /\ LoopDone => \A j \in 1..Len(dados_sensores) : RowInPlace(j)
    /\ Len(dados_sensores) > 0 => RowInPlace(Len(dados_sensores))
    /\ pc = "temp" => Len(dados_sensores) = 3 * i
    /\ pc = "lux" => Len(dados_sensores) = 3 * i + 1
    /\ pc = "occ" => Len(dados_sensores) = 3 * i + 2

C8_Witness ==
    /\ pc = "done"
    /\ dados_sensores[2016].sensor_id = "OCCU01"
    /\ dados_sensores[2016].timestamp = "2024-01-21 23:45:00"

\* the daytime branch of the illuminance signal: 8 < decimal hour < 18
EhDia(timestamp) == 8 * 60 < HoraDecimal(timestamp) /\ HoraDecimal(timestamp) < 18 * 60
DiasAte(k) == Cardinality({ j \in 1..k : EhDia(timestamps[j]) })

\* C9: every temperature call draws exactly one Gaussian sample, an illuminance call
\* draws exactly one if and only if 8 < decimal hour < 18 and none otherwise, every
\* occupancy call draws exactly one uniform sample, and within an instant the
\* temperature draw precedes the illuminance draw.
C9_Draws ==
    GenDone =>
        /\ py_rng.pos = i
        /\ np_rng.pos =
            i + DiasAte(i)
              + (IF pc \in { "lux", "occ" } THEN 1 ELSE 0)
              + (IF pc = "occ" /\ EhDia(timestamps[i + 1]) THEN 1 ELSE 0)

C9_Witness == pc = "done" /\ np_rng.pos = 672 + 7 * 39 /\ py_rng.pos = 672

\* C7: the file has the header timestamp,sensor_id,value and one data row per
\* reading; every OCCU01 value is an exact integer written as the text 0 or 1, and
\* the TEMP01 and LUX01 values are written rounded to 2 decimals.
C7_ArquivoSerializado ==
    pc = "done" =>
        /\ Len(arquivo) = Len(dados_sensores) + 1
        /\ arquivo[1] = << "timestamp", "sensor_id", "value" >>
        /\ \A j \in 1..Len(dados_sensores) :
            LET row == dados_sensores[j]
                cells == arquivo[j + 1]
            IN  /\ cells[1] = row.timestamp
                /\ cells[2] = row.sensor_id
                /\ IF row.sensor_id = "OCCU01"
                      THEN /\ row.value.t = "int"
                           /\ cells[3] \in { "0", "1" }
                           /\ cells[3] = ToString(row.value.v)
                      ELSE /\ Milli(row.value) % 10 = 0
                           /\ cells[3] = NumText(PyFloat(Milli(row.value)))

-----------------------------------------------------------------------------
(* Properties of one call (specification SpecCall)                          *)

Returned(f) == fpc = "ret" /\ fn = f

\* the Gaussian noise a temperature call adds, and the uniform sample of an
\* occupancy call, as the generator handed to the call yields them
RuidoTemp == np_random_normal(arg_rng, 0, 8).value
Uniforme == random_random(arg_rng).value

\* C3: for every instant and every value of the noise draw, simular_temperatura
\* returns a value t with 16.0 <= t <= 28.0.
C3_TempRange ==
    Returned("simular_temperatura") =>
        /\ 16000 <= Milli(ret.value)
        /\ Milli(ret.value) <= 28000

C3_Witness ==
    /\ Returned("simular_temperatura")
    /\ RuidoTemp < 0 - 10000
    /\ ret.value = PyFloat(16000)

\* C4: for every instant and every value of the noise draw, simular_luminosidade
\* returns a value >= 0, and exactly 0.0 when the decimal hour is >= 20 or <= 6.
C4_LuxNonNegative ==
    Returned("simular_luminosidade") =>
        /\ Milli(ret.value) >= 0
        /\ (HoraDecimal(arg_ts) >= 20 * 60 \/ HoraDecimal(arg_ts) <= 6 * 60)
                => ret.value = PyFloat(0)

C4_Witness ==
    /\ Returned("simular_luminosidade")
    /\ HoraDecimal(arg_ts) = 6 * 60
    /\ ret.value = PyFloat(0)

\* the occupancy probability, in hundredths, that the claim assigns to an instant
C5_Prob(timestamp) ==
    IF Weekday(timestamp) < 5 /\ 9 <= Hour(timestamp) /\ Hour(timestamp) < 18 THEN 95
    ELSE IF Weekday(timestamp) < 5 THEN 5
    ELSE 2

\* C5: for every instant and every uniform draw u, simular_ocupacao returns 1 if
\* u < p and 0 otherwise, with p = 0.95 on a weekday from 9h to before 18h, 0.05 on
\* a weekday outside those hours and 0.02 on Saturday and Sunday at any hour.
C5_Occupancy ==
    Returned("simular_ocupacao") =>
        /\ ret.value \in { PyInt(0), PyInt(1) }
        /\ ret.value = PyInt(1) <=> Uniforme * 100 < C5_Prob(arg_ts) * URes

\* Saturday 2024-01-20 10:00 with a draw in [0.02, 0.95): free, by the 2% branch
C5_Witness ==
    /\ Returned("simular_ocupacao")
    /\ strftime(arg_ts) = "2024-01-20 10:00:00"
    /\ Weekday(arg_ts) = 5
    /\ Uniforme * 100 >= 2 * URes
    /\ Uniforme * 100 < 95 * URes
    /\ ret.value = PyInt(0)

\* the base before noise that the claim assigns to an hour; -1 if it names none
C10_Base(h) ==
    IF h \in 9..18 THEN 21500 + AmpSin(3500, (h - 9) * 40)
    ELSE IF h \in (19..23) \cup (0..6) THEN 19500
    ELSE IF h \in { 7, 8 } THEN 21500 + 1000
    ELSE 0 - 1

\* C10: every hour falls in exactly one of three cases: the sine bump for 9..18,
\* 19.5 for 19..23 and 0..6, and 21.5 + 1.0 for exactly the hours 7 and 8; on
\* Saturday and Sunday 0.5 is subtracted; the result is that base plus the noise
\* draw, clamped to [16.0, 28.0].
C10_TempCases ==
    Returned("simular_temperatura") =>
        LET h == Hour(arg_ts)
            base == C10_Base(h) - (IF Weekday(arg_ts) \in { 5, 6 } THEN 500 ELSE 0)
            soma == base + RuidoTemp
        IN  /\ C10_Base(h) # 0 - 1
            /\ TempRamo(h) = "transicao" <=> h \in { 7, 8 }
            /\ ret.value =
                PyFloat(IF soma < 16000 THEN 16000 ELSE IF soma > 28000 THEN 28000 ELSE soma)

C10_Witness ==
    /\ Returned("simular_temperatura")
    /\ Hour(arg_ts) = 7
    /\ Weekday(arg_ts) = 6
    /\ RuidoTemp = 400
    /\ ret.value = PyFloat(22400)

=============================================================================
